---------------------------- MODULE Spec2Model ----------------------------
(***************************************************************************)
(* Spiel: the recording bar's session coordinator (RecordingBar.tsx), the  *)
(* capture hook (useAudioRecorder.ts), the transcription hook              *)
(* (useTranscription.ts), the zustand store and the VADProcessor           *)
(* (appStore.ts), and the main process's stop-and-insert handler (main.ts).*)
(*                                                                         *)
(* One action is one event-loop turn of the renderer (an IPC message, a    *)
(* click, a timer, an animation frame, a promise settling) together with   *)
(* the microtasks it runs.  Text is a sequence of one-character strings.   *)
(***************************************************************************)
EXTENDS Integers, Sequences, FiniteSets, TLC

(* ------------------------------ bounds -------------------------------- *)
\* toggle events (IPC message or button click) delivered in one behaviour
MaxToggles == 2
\* clock advances in one behaviour
MaxTicks == 3
\* startRecording calls made in one behaviour
MaxStarts == 2
\* encoded chunks the recorders hand to a detector in one behaviour
MaxChunks == 2
\* the clock advances by this many milliseconds per Tick
TickMs == 1000
\* Date.now() when the window is mounted (never 0)
T0 == 1000
\* VadSpec: the clock advances by this many milliseconds per VadTick
FrameMs == 100
\* VadSpec: clock advances in one behaviour
MaxVadTicks == 25
\* VadSpec: chunks passed to the detector in one behaviour
MaxFed == 5
\* HotkeySpec: key events and shortcut activations in one behaviour
MaxKeys == 2
\* HotkeySpec: settings changes (reloadSettings calls) in one behaviour
MaxHkCalls == 1
\* ManagerSpec: start, stop and reloadSettings calls in one behaviour
MaxMgrCalls == 3
\* HotkeySpec: the clock advances by one of these two steps, in milliseconds
HkShort == 150
HkLong == 250
\* HotkeySpec: clock advances in one behaviour
MaxHkTicks == 2
\* TextSpec: fragments appended in one behaviour
MaxAppends == 4

(* ----------------------- configuration defaults ----------------------- *)
silenceDuration == 900
minSpeechDuration == 500
doubleTapThreshold == 300

(* ------------------------------- text --------------------------------- *)
NL == "\n"
SP == " "
Letters == <<"a", "b", "c", "d", "e", "f", "g", "h">>

IsWhitespace(c) == c \in {SP, NL}

RECURSIVE trimEnd(_)
trimEnd(s) ==
  IF s = <<>> THEN <<>>
  ELSE IF IsWhitespace(s[Len(s)]) THEN trimEnd(SubSeq(s, 1, Len(s) - 1))
  ELSE s

RECURSIVE trimStart(_)
trimStart(s) ==
  IF s = <<>> THEN <<>>
  ELSE IF IsWhitespace(s[1]) THEN trimStart(Tail(s))
  ELSE s

trim(s) == trimStart(trimEnd(s))

\* text.replace(/\n+$/, '')
RECURSIVE stripTrailingNewlines(_)
stripTrailingNewlines(s) ==
  IF s = <<>> THEN <<>>
  ELSE IF s[Len(s)] = NL THEN stripTrailingNewlines(SubSeq(s, 1, Len(s) - 1))
  ELSE s

\* no buffer counts as ending with a newline
endsWithNewline_Never(s) == FALSE

\* state.transcript.endsWith('\n')
endsWithNewline(s) == s # <<>> /\ s[Len(s)] = NL

\* the incoming text is trimmed on both sides before it is appended
appendTranscript_TrimmedFragment(b, text) ==
  IF text = <<NL>>
    THEN trimEnd(b) \o <<NL>>
    ELSE LET cleanText == trim(text)
             needsSpace == b # <<>> /\ ~endsWithNewline(b)
         IN  b \o (IF needsSpace THEN <<SP>> ELSE <<>>) \o cleanText

\* the newline marker is appended to the buffer as it is
appendTranscript_MarkerAppended(b, text) ==
  IF text = <<NL>>
    THEN b \o <<NL>>
    ELSE LET cleanText == stripTrailingNewlines(text)
             needsSpace == b # <<>> /\ ~endsWithNewline(b)
         IN  b \o (IF needsSpace THEN <<SP>> ELSE <<>>) \o cleanText

\* the store's appendTranscript reducer: buffer b, incoming text
appendTranscript(b, text) ==
  IF text = <<NL>>
    THEN trimEnd(b) \o <<NL>>
    ELSE LET cleanText == stripTrailingNewlines(text)
             needsSpace == b # <<>> /\ ~endsWithNewline(b)
         IN  b \o (IF needsSpace THEN <<SP>> ELSE <<>>) \o cleanText

(* ------------------------- the VADProcessor --------------------------- *)
\* a freshly constructed VADProcessor, its animation-frame loop requested
NewVAD ==
  [isSpeaking |-> FALSE, silenceStartTime |-> 0, speechStartTime |-> 0,
   audioChunks |-> <<>>, headerChunk |-> 0, running |-> TRUE]

\* every chunk replaces the header
HeaderAfterChunk_Latest(v, chunk) == chunk

\* lines 118-121: only the first chunk becomes the header
HeaderAfterChunk(v, chunk) == IF v.headerChunk = 0 THEN chunk ELSE v.headerChunk

processAudioChunk(v, chunk) ==
  [v EXCEPT !.headerChunk = HeaderAfterChunk(v, chunk),
            !.audioChunks = Append(v.audioChunks, chunk)]

\* the buffer survives the reset
resetState_KeepsChunks(v) ==
  [v EXCEPT !.isSpeaking = FALSE, !.silenceStartTime = 0, !.speechStartTime = 0]

resetState(v) ==
  [v EXCEPT !.isSpeaking = FALSE, !.silenceStartTime = 0,
            !.speechStartTime = 0, !.audioChunks = <<>>]

\* a call that emits no event: the detector afterwards, nothing handed to
\* onSpeechEnd (emitted) or onSpeechStart (started)
NoEvent(v) == [vad |-> v, blob |-> <<>>, emitted |-> FALSE, started |-> FALSE]

\* the blob is built without the empty-buffer check
HasChunks_Unchecked(v) == TRUE

\* line 170: the buffer holds at least one chunk
HasChunks(v) == Len(v.audioChunks) > 0

\* the header is put in front of every chunk list
NeedsPrepend_Always(v) == v.headerChunk # 0

\* lines 172-173: audioChunks[0] !== headerChunk (undefined for an empty list)
NeedsPrepend(v) ==
  v.headerChunk # 0 /\ (v.audioChunks = <<>> \/ v.audioChunks[1] # v.headerChunk)

\* lines 174-186: the chunk list of the blob handed to onSpeechEnd
segmentBlob(v) ==
  IF NeedsPrepend(v) THEN <<v.headerChunk>> \o v.audioChunks ELSE v.audioChunks

completeSpeechSegment(v) ==
  [vad |-> resetState(v),
   blob |-> IF HasChunks(v) THEN segmentBlob(v) ELSE <<>>,
   emitted |-> HasChunks(v),
   started |-> FALSE]

\* the speech duration is measured up to the current frame
SpeechDuration_ToNow(v, t) == t - v.speechStartTime

\* line 144: the speech duration ends where the silence run began
SpeechDuration(v, t) == v.silenceStartTime - v.speechStartTime

\* the chunks buffered while Silent stay in the buffer
ChunksAtSpeechStart_Kept(v) == v.audioChunks

\* line 136: this.audioChunks = []
ChunksAtSpeechStart(v) == <<>>

analyzeAudioLevel(v, isSilent, t) ==
  IF ~v.isSpeaking /\ ~isSilent
    THEN [vad |-> [v EXCEPT !.isSpeaking = TRUE, !.speechStartTime = t,
                            !.silenceStartTime = 0,
                            !.audioChunks = ChunksAtSpeechStart(v)],
          blob |-> <<>>, emitted |-> FALSE, started |-> TRUE]
  ELSE IF v.isSpeaking
    THEN IF isSilent
           THEN IF v.silenceStartTime = 0
                  THEN NoEvent([v EXCEPT !.silenceStartTime = t])
                ELSE IF t - v.silenceStartTime >= silenceDuration
                  THEN IF SpeechDuration(v, t) >= minSpeechDuration
                         THEN completeSpeechSegment(v)
                         ELSE NoEvent(resetState(v))
                ELSE NoEvent(v)
           ELSE NoEvent([v EXCEPT !.silenceStartTime = 0])
  ELSE NoEvent(v)

\* the forced flush ignores the minimum speech duration
ForceLongEnough_Always(v, t) == TRUE

\* lines 234-235: Date.now() - speechStartTime >= minSpeechDuration
ForceLongEnough(v, t) == t - v.speechStartTime >= minSpeechDuration

forceComplete(v, t) ==
  LET done == IF v.isSpeaking /\ Len(v.audioChunks) > 0 /\ ForceLongEnough(v, t)
                THEN completeSpeechSegment(v)
                ELSE NoEvent(v)
  IN  [done EXCEPT !.vad = resetState(done.vad)]

\* VADProcessor.stop: the animation-frame loop is cancelled
stop(v) == [v EXCEPT !.running = FALSE]

(* ------------------------------ state --------------------------------- *)
VARIABLES
  now,               \* Date.now()
  recordingState,    \* store: 'idle' | 'recording' | 'processing' | 'error'
  transcript,        \* store: the transcript buffer
  isRecording,       \* useAudioRecorder: the isRecording state
  hIsRecording,      \* isRecording as captured by the committed handleToggleRecording
  hTranscript,       \* transcript as captured by the committed handleToggleRecording
  pendingStopRef,    \* RecordingBar: pendingStopRef.current
  processingCountRef,\* RecordingBar: processingCountRef.current
  vads,              \* every VADProcessor constructed so far
  recorders,         \* the MediaRecorder constructed with vads[i]
  vadRef,            \* vadRef.current / mediaRecorderRef.current / streamRef.current (0 = null)
  pendingStarts,     \* startRecording calls awaiting getUserMedia
  onShowTimer,       \* the startOnShow timer has not fired yet
  calls,             \* processAudioChunkTracked calls awaiting their transcription
  finalizing,        \* stopRecordingAndInsert calls awaiting their result
  nextChunk,         \* id of the next encoded chunk
  toggles,           \* toggle events delivered so far
  starts,            \* startRecording calls made so far
  session,           \* history: capture sessions started so far
  stopReq,           \* history: the stop trigger that set pendingStopRef
  dispatched,        \* history: dispatched[k] = session of the k-th dispatched segment
  appended,          \* history: call ids in the order their text was appended
  finalizeLog,       \* history: every stopRecordingAndInsert invocation
  failures,          \* history: calls settled by an error result or an exception
  handoffs,          \* history: every run of the RECORDING_STOP_AND_INSERT handler
  vad,               \* VadSpec: the VADProcessor driven on its own
  fed,               \* VadSpec: chunks passed to vad.processAudioChunk so far
  ref,               \* VadSpec: the endpoint rule applied to the frames seen so far
  lastOut,           \* VadSpec: the last call on vad, the detector before it, its events
  startFed,          \* VadSpec history: chunks received before the last change to Speaking
  sentChunks,        \* VadSpec history: every chunk handed to onSpeechEnd so far
  hotkeyMode,        \* HotkeySpec: the stored hotkeyMode setting
  hotkeyManager,     \* HotkeySpec: the HotkeyManager singleton's fields
  uIOhook,           \* HotkeySpec: uiohook's keydown listeners and whether it runs
  globalShortcut,    \* HotkeySpec: accelerators registered with globalShortcut
  listeners,         \* HotkeySpec: events main.ts has subscribed to on the manager
  keyEvents,         \* HotkeySpec: key events and shortcut activations so far
  hkCalls,          \* HotkeySpec: start, stop and reloadSettings calls so far
  triggers,          \* HotkeySpec history: Date.now() of every 'trigger' emitted
  errorEvents,       \* HotkeySpec history: every error event emitted, and whether heard
  pressLog,          \* HotkeySpec history: every qualifying key event delivered
  buf,               \* TextSpec: a transcript buffer driven on its own
  bufIn,             \* TextSpec history: the fragments appended to buf, in order
  bufBefore          \* TextSpec history: buf before the last fragment was appended

vars == <<now, recordingState, transcript, isRecording, hIsRecording, hTranscript,
          pendingStopRef, processingCountRef, vads, recorders, vadRef,
          pendingStarts, onShowTimer, calls, finalizing, nextChunk, toggles,
          starts, session, stopReq, dispatched, appended, finalizeLog, failures,
          handoffs, vad, fed, ref, lastOut, startFed, sentChunks, hotkeyMode, hotkeyManager, uIOhook,
          globalShortcut, listeners, keyEvents, hkCalls, triggers, errorEvents,
          pressLog, buf, bufIn, bufBefore>>

captureVars == <<vads, recorders, vadRef, nextChunk>>
historyVars == <<session, stopReq, dispatched, appended, finalizeLog, failures,
                 handoffs>>
vadVars == <<vad, fed, ref, lastOut, startFed, sentChunks>>
hotkeyVars == <<hotkeyMode, hotkeyManager, uIOhook, globalShortcut, listeners,
                keyEvents, hkCalls, triggers, errorEvents, pressLog>>
textVars == <<buf, bufIn, bufBefore>>

\* everything outside the recording bar
unitVars == <<vadVars, hotkeyVars, textVars>>

\* everything of the recording bar that a call on a detector alone leaves as it is
barVars == <<recordingState, transcript, isRecording, hIsRecording, hTranscript,
             pendingStopRef, processingCountRef, vads, recorders, vadRef,
             pendingStarts, onShowTimer, calls, finalizing, nextChunk, toggles,
             starts, session, stopReq, dispatched, appended, finalizeLog, failures,
             handoffs>>

MaxTime == T0 + MaxTicks * TickMs

\* the endpoint rule's state before any frame: Silent, no silence run
RefSilent == [speaking |-> FALSE, speechStart |-> 0, quiet |-> FALSE, silenceStart |-> 0]

\* no call has been made on the detector (or the clock advanced since)
Range(q) == {q[i] : i \in DOMAIN q}

NoCall ==
  [op |-> "none", silent |-> FALSE, before |-> NewVAD, ref |-> RefSilent,
   blob |-> <<>>, emitted |-> FALSE, started |-> FALSE]

\* the HotkeyManager singleton as constructed
NewHotkeyManager == [lastControlPress |-> 0, lastF5Press |-> 0, isListening |-> FALSE]

\* no stop trigger has set pendingStopRef yet
NoStop == [toggle |-> 0, sess |-> 0, calls |-> {}, upTo |-> 0]

Init ==
  /\ now = T0
  /\ recordingState = "idle"
  /\ transcript = <<>>
  /\ isRecording = FALSE
  /\ hIsRecording = FALSE
  /\ hTranscript = <<>>
  /\ pendingStopRef = FALSE
  /\ processingCountRef = 0
  /\ vads = <<>>
  /\ recorders = <<>>
  /\ vadRef = 0
  /\ pendingStarts = 0
  /\ onShowTimer = TRUE
  /\ calls = {}
  /\ finalizing = {}
  /\ nextChunk = 1
  /\ toggles = 0
  /\ starts = 0
  /\ session = 0
  /\ stopReq = NoStop
  /\ dispatched = <<>>
  /\ appended = <<>>
  /\ finalizeLog = <<>>
  /\ failures = 0
  /\ handoffs = <<>>
  /\ vad = NewVAD
  /\ fed = 0
  /\ ref = RefSilent
  /\ lastOut = NoCall
  /\ startFed = 0
  /\ sentChunks = {}
  /\ hotkeyMode = "double-tap-control"
  /\ hotkeyManager = NewHotkeyManager
  /\ uIOhook = [keydown |-> 0, running |-> FALSE]
  /\ globalShortcut = 0
  /\ listeners = {}
  /\ keyEvents = 0
  /\ hkCalls = 0
  /\ triggers = <<>>
  /\ errorEvents = <<>>
  /\ pressLog = <<>>
  /\ buf = <<>>
  /\ bufIn = <<>>
  /\ bufBefore = <<>>

(* ------------------- RecordingBar / hooks: operations ------------------ *)
\* the text the transcription collaborator returns for the k-th segment
SegmentText(k) == <<Letters[k]>>

\* processAudioChunkTracked up to its first await, for an emitted blob:
\* the counter is incremented and processAudioChunk sets 'processing'
CountAfterDispatch(blob) ==
  IF blob # <<>> THEN processingCountRef + 1 ELSE processingCountRef

CallsAfterDispatch(blob, s) ==
  IF blob # <<>> THEN calls \cup {[id |-> Len(dispatched) + 1, sess |-> s]}
  ELSE calls

DispatchedAfter(blob, s) ==
  IF blob # <<>> THEN Append(dispatched, s) ELSE dispatched

\* the immediate branch is taken with one operation still pending
HasPending_OffByOne(count) == count > 1

\* line 86: there are pending transcription operations
HasPending(count) == count > 0

\* the stop completes as soon as any call settles
StopCompletes_AnySettle(pending, count) == pending

\* the counter is compared before the decrement took effect
StopCompletes_BeforeDecrement(pending, count) == pending /\ count = 1

\* line 47: stop was requested and this was the last pending operation
StopCompletes(pending, count) == pending /\ count = 0

\* the decrement is skipped when the call threw
CountAfterSettle_NotOnThrow(outcome) ==
  IF outcome = "throw" THEN processingCountRef ELSE processingCountRef - 1

\* line 45: the finally block runs however the call settled
CountAfterSettle(outcome) == processingCountRef - 1

\* the transcript is handed over as it is
FinalizeText_Untrimmed(t) == t

\* lines 50 and 96: transcript.trim()
FinalizeText(t) == trim(t)

\* window.electronAPI.stopRecordingAndInsert(text) is invoked
\* (req: the stop trigger it answers, inflight: the calls not yet settled,
\* buffer: the store's transcript at that moment)
InvokeFinalize(text, path, count, req, inflight) ==
  /\ finalizeLog' = Append(finalizeLog,
       [text |-> text, buffer |-> transcript', path |-> path, count |-> count,
        toggle |-> req.toggle,
        sess |-> req.sess, upTo |-> req.upTo,
        inflight |-> Cardinality(inflight), starts |-> starts,
        pendingStarts |-> pendingStarts])
  /\ finalizing' = finalizing \cup {[id |-> Len(finalizeLog) + 1, text |-> text]}

\* a detector is inside a speech run: the only time the program reads the clock
\* for (differences to speechStartTime and silenceStartTime)
Timing == \E i \in 1..Len(vads) : vads[i].isSpeaking

\* the clock advances; time that passes while no detector is timing a speech run
\* is not observable by the program
Tick ==
  /\ now < MaxTime
  /\ Timing
  /\ now' = now + TickMs
  /\ UNCHANGED <<recordingState, transcript, isRecording, hIsRecording, hTranscript,
                 pendingStopRef, processingCountRef, pendingStarts, onShowTimer,
                 calls, finalizing, toggles, starts>>
  /\ UNCHANGED captureVars
  /\ UNCHANGED historyVars
  /\ UNCHANGED unitVars

\* startOnShow: the mount-time timer fires; its closure saw recordingState 'idle'
StartOnShow ==
  /\ onShowTimer
  /\ starts < MaxStarts
  /\ starts' = starts + 1
  /\ onShowTimer' = FALSE
  /\ pendingStarts' = pendingStarts + 1
  /\ UNCHANGED <<now, recordingState, transcript, isRecording, hIsRecording,
                 hTranscript, pendingStopRef, processingCountRef, calls,
                 finalizing, toggles>>
  /\ UNCHANGED captureVars
  /\ UNCHANGED historyVars
  /\ UNCHANGED unitVars

\* getUserMedia settles: the rest of startRecording (setAnalyserNode runs the
\* detector's first frame at once), then the caller's
\* setRecordingState('recording') and clearTranscript()
StartResolve(ok, isSilent) ==
  /\ pendingStarts > 0
  /\ pendingStarts' = pendingStarts - 1
  /\ IF ok
       THEN /\ vads' = Append(vads, analyzeAudioLevel(NewVAD, isSilent, now).vad)
            /\ recorders' = Append(recorders, "recording")
            /\ vadRef' = Len(vads) + 1
            /\ isRecording' = TRUE
            /\ session' = Len(vads) + 1
       ELSE UNCHANGED <<vads, recorders, vadRef, isRecording, session>>
  /\ recordingState' = "recording"
  /\ transcript' = <<>>
  /\ hTranscript' = <<>>
  /\ UNCHANGED <<now, hIsRecording, pendingStopRef, processingCountRef, onShowTimer,
                 calls, finalizing, nextChunk, toggles, starts, stopReq, dispatched,
                 appended, finalizeLog, failures, handoffs>>
  /\ UNCHANGED unitVars

\* React commits the render that carries the isRecording update and the effect
\* stores the new handleToggleRecording in handleToggleRef
Render ==
  /\ hIsRecording # isRecording
  /\ hIsRecording' = isRecording
  /\ UNCHANGED <<now, recordingState, transcript, isRecording, hTranscript,
                 pendingStopRef, processingCountRef, pendingStarts, onShowTimer,
                 calls, finalizing, toggles, starts>>
  /\ UNCHANGED captureVars
  /\ UNCHANGED historyVars
  /\ UNCHANGED unitVars

\* the handler feeds the detector it was created with
ChunkTarget_OwnDetector(i) == i

\* lines 104-105: the handler feeds vadRef.current, if any
ChunkTarget(i) == vadRef

\* MediaRecorder i fires dataavailable
DataAvailable(i, nonEmpty) ==
  /\ i \in 1..Len(recorders)
  /\ recorders[i] \in {"recording", "stopping"}
  /\ nonEmpty => nextChunk <= MaxChunks
  /\ recorders' = [recorders EXCEPT ![i] = IF @ = "stopping" THEN "inactive" ELSE @]
  /\ IF nonEmpty /\ ChunkTarget(i) # 0
       THEN /\ vads' = [vads EXCEPT ![ChunkTarget(i)] = processAudioChunk(@, nextChunk)]
            /\ nextChunk' = nextChunk + 1
       ELSE UNCHANGED <<vads, nextChunk>>
  /\ UNCHANGED <<now, recordingState, transcript, isRecording, hIsRecording,
                 hTranscript, pendingStopRef, processingCountRef, vadRef,
                 pendingStarts, onShowTimer, calls, finalizing, toggles, starts>>
  /\ UNCHANGED historyVars
  /\ UNCHANGED unitVars

\* one animation frame of detector i: analyzeAudioLevel, and on SpeechEnd the
\* onSpeechSegment callback (processAudioChunkTracked up to its first await)
AnalyzeFrame(i, isSilent) ==
  /\ i \in 1..Len(vads)
  /\ vads[i].running
  /\ LET r == analyzeAudioLevel(vads[i], isSilent, now)
     IN  /\ vads' = [vads EXCEPT ![i] = r.vad]
         /\ processingCountRef' = CountAfterDispatch(r.blob)
         /\ calls' = CallsAfterDispatch(r.blob, i)
         /\ dispatched' = DispatchedAfter(r.blob, i)
         /\ recordingState' = IF r.blob # <<>> THEN "processing" ELSE recordingState
  /\ UNCHANGED <<now, transcript, isRecording, hIsRecording, hTranscript,
                 pendingStopRef, recorders, vadRef, pendingStarts, onShowTimer,
                 finalizing, nextChunk, toggles, starts, session, stopReq,
                 appended, finalizeLog, failures, handoffs>>
  /\ UNCHANGED unitVars

\* stopRecording(): forceComplete and stop the current detector, stop the
\* current recorder, release the refs, setIsRecording(false)
StopVads ==
  IF vadRef # 0
    THEN [vads EXCEPT ![vadRef] = stop(forceComplete(@, now).vad)]
    ELSE vads

StopBlob == IF vadRef # 0 THEN forceComplete(vads[vadRef], now).blob ELSE <<>>

StopRecorders ==
  IF vadRef # 0 /\ recorders[vadRef] # "inactive"
    THEN [recorders EXCEPT ![vadRef] = "stopping"]
    ELSE recorders

\* history: this stop trigger, the calls in flight and dispatched when it ends
StopTrigger ==
  [toggle |-> toggles + 1, sess |-> session, calls |-> calls',
   upTo |-> Len(dispatched')]

\* handleToggleRecording, stop branch (the committed closure saw isRecording)
ToggleStop ==
  /\ hIsRecording
  /\ UNCHANGED <<transcript, hTranscript, pendingStarts, nextChunk, session, starts,
                 appended, failures, handoffs>>
  /\ vads' = StopVads
  /\ recorders' = StopRecorders
  /\ vadRef' = 0
  /\ isRecording' = FALSE
  /\ processingCountRef' = CountAfterDispatch(StopBlob)
  /\ calls' = CallsAfterDispatch(StopBlob, vadRef)
  /\ dispatched' = DispatchedAfter(StopBlob, vadRef)
  /\ IF HasPending(processingCountRef')
       THEN /\ recordingState' = "processing"
            /\ pendingStopRef' = TRUE
            /\ stopReq' = StopTrigger
            /\ UNCHANGED <<finalizeLog, finalizing>>
       ELSE /\ recordingState' = "idle"
            /\ InvokeFinalize(FinalizeText(hTranscript), "immediate", processingCountRef',
                              StopTrigger, calls')
            /\ UNCHANGED <<pendingStopRef, stopReq>>

\* handleToggleRecording, start branch up to the await of startRecording
ToggleStart ==
  /\ ~hIsRecording
  /\ starts < MaxStarts
  /\ starts' = starts + 1
  /\ pendingStarts' = pendingStarts + 1
  /\ UNCHANGED <<recordingState, transcript, isRecording, hTranscript,
                 pendingStopRef, processingCountRef, calls, finalizing>>
  /\ UNCHANGED captureVars
  /\ UNCHANGED historyVars

\* a toggle event: the onToggleRecording listener or the button's onClick
Toggle ==
  /\ toggles < MaxToggles
  /\ toggles' = toggles + 1
  /\ ToggleStop \/ ToggleStart
  /\ UNCHANGED <<now, hIsRecording, onShowTimer>>
  /\ UNCHANGED unitVars

\* the Enter key handler
EnterKey ==
  /\ hIsRecording
  /\ transcript' = appendTranscript(transcript, <<NL>>)
  /\ hTranscript' = transcript'
  /\ UNCHANGED <<now, recordingState, isRecording, hIsRecording, pendingStopRef,
                 processingCountRef, pendingStarts, onShowTimer, calls,
                 finalizing, toggles, starts>>
  /\ UNCHANGED captureVars
  /\ UNCHANGED historyVars
  /\ UNCHANGED unitVars

Outcomes == {"text", "textNL", "empty", "error", "throw"}

\* transcribe() returned an error result or the call threw
Failed(outcome) == outcome \in {"error", "throw"}

\* useTranscription.ts 54-56: the finally block, whatever the outcome
StateAfterSettle(outcome) == "recording"

\* the text of a failed call is appended like any other
ResultText_AlsoOnFailure(c, outcome) ==
  IF outcome = "empty" THEN <<>> ELSE <<Letters[c.id]>>

\* what transcribe() resolves with for call c under the outcome
ResultText(c, outcome) ==
  IF outcome = "text" THEN SegmentText(c.id)
  ELSE IF outcome = "textNL" THEN SegmentText(c.id) \o <<NL>>
  ELSE <<>>

\* the transcription of call c settles: the rest of processAudioChunk and the
\* finally block of processAudioChunkTracked up to its await
Settle(c, outcome) ==
  /\ c \in calls
  /\ calls' = calls \ {c}
  /\ transcript' = IF ResultText(c, outcome) # <<>>
                     THEN appendTranscript(transcript, ResultText(c, outcome))
                     ELSE transcript
  /\ hTranscript' = transcript'
  /\ recordingState' = StateAfterSettle(outcome)
  /\ failures' = IF Failed(outcome) THEN failures + 1 ELSE failures
  /\ processingCountRef' = CountAfterSettle(outcome)
  /\ appended' = IF ResultText(c, outcome) # <<>> THEN Append(appended, c.id)
                 ELSE appended
  /\ IF StopCompletes(pendingStopRef, processingCountRef')
       THEN /\ pendingStopRef' = FALSE
            /\ InvokeFinalize(FinalizeText(transcript'), "deferred", processingCountRef',
                              stopReq, calls')
       ELSE UNCHANGED <<pendingStopRef, finalizeLog, finalizing>>
  /\ UNCHANGED <<now, isRecording, hIsRecording, pendingStarts, onShowTimer,
                 toggles, starts, session, stopReq, dispatched, handoffs>>
  /\ UNCHANGED captureVars
  /\ UNCHANGED unitVars

(* ---------------- main process: RECORDING_STOP_AND_INSERT -------------- *)
\* how the cleanup call goes: the setting is off, the request throws, or the
\* completion carries a rewrite or nothing but white space (a completion
\* without content takes the same !cleanedText branch)
CleanupOutcomes == {"disabled", "throw", "rewrite", "blank"}

\* completion.choices[0]?.message?.content for an outcome that has a reply
ReplyContent(outcome) ==
  IF outcome = "rewrite" THEN <<"z", NL>> ELSE <<SP>>

\* aiCleanup.ts cleanupText: passthrough when disabled, on an exception and on
\* an empty reply; the trimmed reply otherwise
cleanupText(text, outcome) ==
  IF outcome = "disabled" THEN [text |-> text, error |-> FALSE]
  ELSE IF outcome = "throw" THEN [text |-> text, error |-> TRUE]
  ELSE IF trim(ReplyContent(outcome)) = <<>> THEN [text |-> text, error |-> FALSE]
  ELSE [text |-> trim(ReplyContent(outcome)), error |-> FALSE]

\* the handler cleans and inserts whatever text it is given
HasText_Unchecked(text) == TRUE

\* main.ts 173: text && text.trim().length > 0
HasText(text) == text # <<>> /\ Len(trim(text)) > 0

\* the raw text is inserted whatever cleanup returned
FinalText_AlwaysRaw(cleanedResult, text) == text

\* main.ts 177: cleanedResult.text || text
FinalText(cleanedResult, text) ==
  IF cleanedResult.text # <<>> THEN cleanedResult.text ELSE text

\* the handler from the 150 ms wait on: the collaborator calls it makes, in the
\* order its awaits impose, and the result it returns
StopAndInsert(text, outcome, insertOk) ==
  IF HasText(text)
    THEN LET cleanedResult == cleanupText(text, outcome)
             finalText == FinalText(cleanedResult, text)
         IN  [io |-> <<[fn |-> "cleanupText", arg |-> text, res |-> outcome],
                       [fn |-> "insertText", arg |-> finalText,
                        res |-> IF insertOk THEN "ok" ELSE "failed"]>>,
              success |-> insertOk]
    ELSE [io |-> <<>>, success |-> TRUE]

\* the transcript is cleared whatever the hand-off reports
ClearsTranscript_Always(result) == TRUE

\* RecordingBar.tsx 53 and 101: if (result.success)
ClearsTranscript(result) == result.success

\* the handler runs for call f and stopRecordingAndInsert resolves:
\* clearTranscript() on success
FinalizeReturn(f, outcome, insertOk) ==
  /\ f \in finalizing
  /\ finalizing' = finalizing \ {f}
  /\ LET result == StopAndInsert(f.text, outcome, insertOk)
     IN  /\ handoffs' = Append(handoffs, [id |-> f.id, io |-> result.io,
                                          success |-> result.success])
         /\ IF ClearsTranscript(result)
              THEN transcript' = <<>> /\ hTranscript' = <<>>
              ELSE UNCHANGED <<transcript, hTranscript>>
  /\ UNCHANGED <<now, recordingState, isRecording, hIsRecording, pendingStopRef,
                 processingCountRef, pendingStarts, onShowTimer, calls, toggles, starts>>
  /\ UNCHANGED captureVars
  /\ UNCHANGED <<session, stopReq, dispatched, appended, finalizeLog, failures>>
  /\ UNCHANGED unitVars

(* --------------------------- specification ---------------------------- *)
StartResolves == \E ok, isSilent \in BOOLEAN : StartResolve(ok, isSilent)
DataAvailables == \E i \in 1..Len(recorders), nonEmpty \in BOOLEAN : DataAvailable(i, nonEmpty)
AnalyzeFrames == \E i \in 1..Len(vads), isSilent \in BOOLEAN : AnalyzeFrame(i, isSilent)
Settles == \E c \in calls, outcome \in Outcomes : Settle(c, outcome)
FinalizeReturns ==
  \E f \in finalizing, outcome \in CleanupOutcomes, insertOk \in BOOLEAN :
    FinalizeReturn(f, outcome, insertOk)

Next ==
  \/ Tick
  \/ StartOnShow
  \/ StartResolves
  \/ Render
  \/ DataAvailables
  \/ AnalyzeFrames
  \/ Toggle
  \/ EnterKey
  \/ Settles
  \/ FinalizeReturns

Spec == Init /\ [][Next]_vars

TypeOK ==
  /\ recordingState \in {"idle", "recording", "processing", "error"}
  /\ processingCountRef \in Int
  /\ vadRef \in 0..Len(vads)
  /\ Len(recorders) = Len(vads)

(* ----------------- the VADProcessor driven on its own ------------------ *)
\* The endpoint rule, applied to one frame (silent or not) at time t: a
\* non-silent frame opens a speech run or ends a silence run, a silent frame
\* opens a silence run, and a silence run of silenceDuration ends the speech run
RefFrame(r, silent, t) ==
  IF ~r.speaking
    THEN IF silent THEN r
         ELSE [speaking |-> TRUE, speechStart |-> t, quiet |-> FALSE, silenceStart |-> 0]
  ELSE IF ~silent THEN [r EXCEPT !.quiet = FALSE, !.silenceStart = 0]
  ELSE IF ~r.quiet THEN [r EXCEPT !.quiet = TRUE, !.silenceStart = t]
  ELSE IF t - r.silenceStart >= silenceDuration THEN RefSilent
  ELSE r

\* this silent frame completes a silence run of silenceDuration after a speech run
RefTimeout(r, silent, t) ==
  r.speaking /\ silent /\ r.quiet /\ t - r.silenceStart >= silenceDuration

\* ... and the speech before the silence run lasted minSpeechDuration
RefSpeechEnd(r, silent, t) ==
  RefTimeout(r, silent, t) /\ r.silenceStart - r.speechStart >= minSpeechDuration

VadMaxTime == T0 + MaxVadTicks * FrameMs

VadTick ==
  /\ now < VadMaxTime
  /\ now' = now + FrameMs
  /\ lastOut' = NoCall
  /\ UNCHANGED <<vad, fed, ref, startFed, sentChunks>>
  /\ UNCHANGED barVars
  /\ UNCHANGED <<hotkeyVars, textVars>>

\* the recorder hands the detector its next chunk
VadChunk ==
  /\ fed < MaxFed
  /\ fed' = fed + 1
  /\ vad' = processAudioChunk(vad, fed + 1)
  /\ lastOut' = [NoCall EXCEPT !.op = "chunk", !.before = vad, !.ref = ref]
  /\ UNCHANGED <<now, ref, startFed, sentChunks>>
  /\ UNCHANGED barVars
  /\ UNCHANGED <<hotkeyVars, textVars>>

\* one animation frame: analyzeAudioLevel on a silent or non-silent frame
VadFrame(isSilent) ==
  /\ vad.running
  /\ LET r == analyzeAudioLevel(vad, isSilent, now)
     IN  /\ vad' = r.vad
         /\ lastOut' = [op |-> "frame", silent |-> isSilent, before |-> vad,
                        ref |-> ref, blob |-> r.blob, emitted |-> r.emitted,
                        started |-> r.started]
         /\ startFed' = IF r.started THEN fed ELSE startFed
         /\ sentChunks' = IF r.emitted THEN sentChunks \cup Range(r.blob) ELSE sentChunks
  /\ ref' = RefFrame(ref, isSilent, now)
  /\ UNCHANGED <<now, fed>>
  /\ UNCHANGED barVars
  /\ UNCHANGED <<hotkeyVars, textVars>>

VadForce ==
  /\ LET r == forceComplete(vad, now)
     IN  /\ vad' = r.vad
         /\ lastOut' = [op |-> "force", silent |-> FALSE, before |-> vad,
                        ref |-> ref, blob |-> r.blob, emitted |-> r.emitted,
                        started |-> r.started]
         /\ sentChunks' = IF r.emitted THEN sentChunks \cup Range(r.blob) ELSE sentChunks
  /\ ref' = RefSilent
  /\ UNCHANGED <<now, fed, startFed>>
  /\ UNCHANGED barVars
  /\ UNCHANGED <<hotkeyVars, textVars>>

VadStop ==
  /\ vad.running
  /\ vad' = stop(vad)
  /\ lastOut' = [NoCall EXCEPT !.op = "stop", !.before = vad, !.ref = ref]
  /\ UNCHANGED <<now, fed, ref, startFed, sentChunks>>
  /\ UNCHANGED barVars
  /\ UNCHANGED <<hotkeyVars, textVars>>

VadFrames == \E isSilent \in BOOLEAN : VadFrame(isSilent)

VadNext ==
  \/ VadTick
  \/ VadChunk
  \/ VadFrames
  \/ VadForce
  \/ VadStop

VadSpec == Init /\ [][VadNext]_vars

(* ------------------ the HotkeyManager driven on its own ---------------- *)
(* The manager, the two OS facilities it installs itself in (uiohook and   *)
(* globalShortcut) and the events it emits.  h is the manager with its     *)
(* surroundings: [manager, uIOhook, globalShortcut, errors], errors being  *)
(* the error events emitted during the call.                               *)
HotkeyModes == {"double-tap-control", "f5", "custom"}
Keys == {"Ctrl", "CtrlRight", "F5", "A"}

HotkeyNow ==
  [manager |-> hotkeyManager, uIOhook |-> uIOhook, globalShortcut |-> globalShortcut,
   errors |-> <<>>]

\* two presses exactly one threshold apart count as a double press
IsDoubleTap_Inclusive(t, lastPress) == t - lastPress <= doubleTapThreshold

\* lines 52 and 61: now - this.lastPress < threshold
IsDoubleTap(t, lastPress) == t - lastPress < doubleTapThreshold

\* the key the mode listens for
Qualifies(mode, key) ==
  \/ mode = "double-tap-control" /\ key \in {"Ctrl", "CtrlRight"}
  \/ mode = "f5" /\ key = "F5"

\* the press record the mode uses
LastPress(m, mode) ==
  IF mode = "f5" THEN m.lastF5Press ELSE m.lastControlPress

\* one run of the keydown listener: the manager after it, and whether it called
\* triggerRecording
keydownHandler(m, mode, key, t) ==
  IF mode = "double-tap-control" /\ key \in {"Ctrl", "CtrlRight"}
    THEN IF IsDoubleTap(t, m.lastControlPress)
           THEN [manager |-> [m EXCEPT !.lastControlPress = 0], fired |-> 1]
           ELSE [manager |-> [m EXCEPT !.lastControlPress = t], fired |-> 0]
  ELSE IF mode = "f5" /\ key = "F5"
    THEN IF IsDoubleTap(t, m.lastF5Press)
           THEN [manager |-> [m EXCEPT !.lastF5Press = 0], fired |-> 1]
           ELSE [manager |-> [m EXCEPT !.lastF5Press = t], fired |-> 0]
  ELSE [manager |-> m, fired |-> 0]

\* uiohook emits 'keydown': every subscribed listener runs, in order
RECURSIVE RunListeners(_, _, _, _, _)
RunListeners(n, m, mode, key, t) ==
  IF n = 0 THEN [manager |-> m, fired |-> 0]
  ELSE LET r == keydownHandler(m, mode, key, t)
           rest == RunListeners(n - 1, r.manager, mode, key, t)
       IN  [manager |-> rest.manager, fired |-> r.fired + rest.fired]

\* setupUiohook: subscribe a keydown listener, then uIOhook.start(), which
\* throws without the accessibility permission
setupUiohook(h, ok) ==
  [h EXCEPT !.uIOhook = [keydown |-> @.keydown + 1, running |-> ok],
            !.errors = IF ok THEN @ ELSE Append(@, "accessibility-error")]

\* hotkeyManager.ts registerShortcut: globalShortcut.register returns false or
\* throws when the accelerator cannot be installed
registerShortcut(h, ok) ==
  [h EXCEPT !.globalShortcut = IF ok THEN @ + 1 ELSE @,
            !.errors = IF ok THEN @ ELSE Append(@, "hotkey-error")]

\* setupCustomHotkey: the same registration, for the customHotkey setting
setupCustomHotkey(h, ok) == registerShortcut(h, ok)

\* start sets the detector up again although it is listening
hotkeyStart_Unguarded(h, mode, ok) ==
  LET set == IF mode = "custom" THEN registerShortcut(h, ok)
             ELSE setupUiohook(h, ok)
  IN  [set EXCEPT !.manager.isListening = TRUE]

\* HotkeyManager.start
hotkeyStart(h, mode, ok) ==
  IF h.manager.isListening THEN h
  ELSE LET set == IF mode = "custom" THEN setupCustomHotkey(h, ok)
                  ELSE setupUiohook(h, ok)
       IN  [set EXCEPT !.manager.isListening = TRUE]

\* HotkeyManager.stop
hotkeyStop(h) ==
  IF ~h.manager.isListening THEN h
  ELSE [h EXCEPT !.uIOhook.running = FALSE,
                 !.globalShortcut = 0,
                 !.manager.isListening = FALSE]

\* HotkeyManager.reloadSettings
reloadSettings(h, mode, ok) == hotkeyStart(hotkeyStop(h), mode, ok)

\* EventEmitter.emit for the error events of a call: an event is heard only by
\* a listener subscribed when it is emitted
Emit(errors, subscribed) ==
  [i \in DOMAIN errors |-> [event |-> errors[i], heard |-> errors[i] \in subscribed]]

\* the manager and its surroundings after a call
HotkeyBecomes(h) ==
  /\ hotkeyManager' = h.manager
  /\ uIOhook' = h.uIOhook
  /\ globalShortcut' = h.globalShortcut
  /\ errorEvents' = errorEvents \o Emit(h.errors, listeners)

HkMaxTime == T0 + MaxHkTicks * HkLong

HkTick(d) ==
  /\ listeners # {}
  /\ now + d <= HkMaxTime
  /\ now' = now + d
  /\ UNCHANGED hotkeyVars
  /\ UNCHANGED <<barVars, vadVars, textVars>>

\* main.ts app.whenReady: hotkeyManager.start() under the stored mode, then the
\* 'hotkey-error' and 'trigger' listeners are subscribed
WhenReady(mode, ok) ==
  /\ listeners = {}
  /\ hotkeyMode' = mode
  /\ HotkeyBecomes(hotkeyStart(HotkeyNow, mode, ok))
  /\ listeners' = {"hotkey-error", "trigger"}
  /\ UNCHANGED <<now, keyEvents, hkCalls, triggers, pressLog>>
  /\ UNCHANGED <<barVars, vadVars, textVars>>

\* main.ts SETTINGS_SET for a hotkey setting: store it, then reloadSettings()
SettingsSet(mode, ok) ==
  /\ listeners # {}
  /\ hkCalls < MaxHkCalls
  /\ hkCalls' = hkCalls + 1
  /\ hotkeyMode' = mode
  /\ HotkeyBecomes(reloadSettings(HotkeyNow, mode, ok))
  /\ UNCHANGED <<now, listeners, keyEvents, triggers, pressLog>>
  /\ UNCHANGED <<barVars, vadVars, textVars>>

\* a key goes down while uiohook runs
KeyDown(key) ==
  /\ uIOhook.running
  /\ keyEvents < MaxKeys
  /\ keyEvents' = keyEvents + 1
  /\ LET r == RunListeners(uIOhook.keydown, hotkeyManager, hotkeyMode, key, now)
     IN  /\ hotkeyManager' = r.manager
         /\ triggers' = triggers \o [i \in 1..r.fired |-> now]
         /\ pressLog' =
              IF Qualifies(hotkeyMode, key)
                THEN Append(pressLog,
                       [t |-> now, mode |-> hotkeyMode, handlers |-> uIOhook.keydown,
                        fired |-> r.fired,
                        before |-> LastPress(hotkeyManager, hotkeyMode),
                        after |-> LastPress(r.manager, hotkeyMode)])
                ELSE pressLog
  /\ UNCHANGED <<now, hotkeyMode, uIOhook, globalShortcut, listeners, hkCalls,
                 errorEvents>>
  /\ UNCHANGED <<barVars, vadVars, textVars>>

\* the registered accelerator is pressed: its callback calls triggerRecording
ShortcutPressed ==
  /\ globalShortcut > 0
  /\ keyEvents < MaxKeys
  /\ keyEvents' = keyEvents + 1
  /\ triggers' = triggers \o [i \in 1..globalShortcut |-> now]
  /\ UNCHANGED <<now, hotkeyMode, hotkeyManager, uIOhook, globalShortcut, listeners,
                 hkCalls, errorEvents, pressLog>>
  /\ UNCHANGED <<barVars, vadVars, textVars>>

HkTicks == \E d \in {HkShort, HkLong} : HkTick(d)
WhenReadys == \E mode \in HotkeyModes, ok \in BOOLEAN : WhenReady(mode, ok)
SettingsSets == \E mode \in HotkeyModes, ok \in BOOLEAN : SettingsSet(mode, ok)
KeyDowns == \E key \in Keys : KeyDown(key)

HotkeyNext ==
  \/ HkTicks
  \/ WhenReadys
  \/ SettingsSets
  \/ KeyDowns
  \/ ShortcutPressed

HotkeySpec == Init /\ [][HotkeyNext]_vars

(* ------------- the HotkeyManager's methods called in any order --------- *)
(* start, stop and reloadSettings called directly, under whatever mode the  *)
(* settings hold at the call, with nobody subscribed to the manager's      *)
(* events; the registered accelerator may be pressed between the calls.    *)
CallStart(mode, ok) ==
  /\ hkCalls < MaxMgrCalls
  /\ hkCalls' = hkCalls + 1
  /\ hotkeyMode' = mode
  /\ HotkeyBecomes(hotkeyStart(HotkeyNow, mode, ok))
  /\ UNCHANGED <<now, listeners, keyEvents, triggers, pressLog>>
  /\ UNCHANGED <<barVars, vadVars, textVars>>

CallStop ==
  /\ hkCalls < MaxMgrCalls
  /\ hkCalls' = hkCalls + 1
  /\ HotkeyBecomes(hotkeyStop(HotkeyNow))
  /\ UNCHANGED <<now, hotkeyMode, listeners, keyEvents, triggers, pressLog>>
  /\ UNCHANGED <<barVars, vadVars, textVars>>

CallReloadSettings(mode, ok) ==
  /\ hkCalls < MaxMgrCalls
  /\ hkCalls' = hkCalls + 1
  /\ hotkeyMode' = mode
  /\ HotkeyBecomes(reloadSettings(HotkeyNow, mode, ok))
  /\ UNCHANGED <<now, listeners, keyEvents, triggers, pressLog>>
  /\ UNCHANGED <<barVars, vadVars, textVars>>

CallStarts == \E mode \in HotkeyModes, ok \in BOOLEAN : CallStart(mode, ok)
CallReloadSettingss == \E mode \in HotkeyModes, ok \in BOOLEAN : CallReloadSettings(mode, ok)

ManagerNext ==
  \/ CallStarts
  \/ CallStop
  \/ CallReloadSettingss
  \/ ShortcutPressed

ManagerSpec == Init /\ [][ManagerNext]_vars

(* ------------------ the transcript buffer driven on its own ------------ *)
\* fragments as the transcription call may return them, and the newline marker
Hello_ == <<"h", "e", "l", "l", "o", SP>>
Hello == <<"h", "e", "l", "l", "o">>
WorldNL == <<"w", "o", "r", "l", "d", NL>>
NextWord == <<"n", "e", "x", "t">>
Fragments == {Hello_, Hello, WorldNL, NextWord, <<NL>>, <<"a", NL, NL>>, <<NL, NL>>}

\* appendTranscript(text) on the buffer
TextAppend(text) ==
  /\ Len(bufIn) < MaxAppends
  /\ buf' = appendTranscript(buf, text)
  /\ bufIn' = Append(bufIn, text)
  /\ bufBefore' = buf
  /\ UNCHANGED <<now, barVars, vadVars, hotkeyVars>>

TextNext == \E text \in Fragments : TextAppend(text)

TextSpec == Init /\ [][TextNext]_vars

(* ------------------------------ properties ---------------------------- *)
FinalizedBy(path) == {i \in DOMAIN finalizeLog : finalizeLog[i].path = path}

\* C1: every invocation of stopRecordingAndInsert, on the immediate-stop path
\* and on the deferred-stop path, happens in a state where
\* processingCountRef is 0
C1_FinalizeOnlyAtZero ==
  \A i \in DOMAIN finalizeLog : finalizeLog[i].count = 0

\* a deferred finalize has been invoked after two segments were dispatched
C1_Witness ==
  /\ FinalizedBy("deferred") # {}
  /\ Len(dispatched) = 2
  /\ processingCountRef = 0

\* C2: no session's transcript is handed to stopRecordingAndInsert twice,
\* whatever triggers arrive after its stop trigger was accepted
C2_FinalizeAtMostOncePerSession ==
  \A i, j \in DOMAIN finalizeLog :
    finalizeLog[i].sess = finalizeLog[j].sess => i = j

\* C5: processingCountRef equals the number of dispatched calls that have not
\* settled yet, and is never negative
C5_CounterIsInFlight ==
  /\ processingCountRef = Cardinality(calls)
  /\ processingCountRef >= 0

\* two segments were dispatched and exactly one of them has settled
C5_Witness ==
  /\ Len(dispatched) = 2
  /\ processingCountRef = 1

\* a stop trigger is handled in this step and defers finalize
DeferredStopStep == toggles' = toggles + 1 /\ hIsRecording /\ pendingStopRef'

\* C3: a stop trigger that finds calls in flight sets 'processing' in the same
\* turn without invoking stopRecordingAndInsert; while any of those calls is in
\* flight nothing is finalized; the settlement that leaves no call in flight
\* invokes it once, however the calls settled; and no stop trigger is answered
\* by two invocations
C3_DeferredStopStepOk ==
  /\ DeferredStopStep => recordingState' = "processing" /\ finalizeLog' = finalizeLog
  /\ (pendingStopRef /\ finalizeLog' # finalizeLog) =>
        /\ stopReq.calls \cap calls' = {}
        /\ Len(finalizeLog') = Len(finalizeLog) + 1
        /\ finalizeLog'[Len(finalizeLog')].path = "deferred"
        /\ ~pendingStopRef'
  /\ (pendingStopRef /\ calls # {} /\ calls' = {}) =>
        Len(finalizeLog') = Len(finalizeLog) + 1

C3_OncePerStopTrigger ==
  \A i, j \in DOMAIN finalizeLog :
    finalizeLog[i].toggle = finalizeLog[j].toggle => i = j

\* C3: every step handles a deferred stop as described above, and every stop
\* trigger is answered by at most one invocation of stopRecordingAndInsert
C3_DeferredStop == [][C3_DeferredStopStepOk]_vars /\ []C3_OncePerStopTrigger

\* the stop trigger found two calls in flight, both have settled, and the one
\* deferred finalize has been invoked
C3_Witness ==
  /\ Cardinality(stopReq.calls) = 2
  /\ calls = {}
  /\ Cardinality(FinalizedBy("deferred")) = 1
  /\ ~pendingStopRef

\* C4: fragments are appended in the order their segments were dispatched
\* (SpeechEnd detection order), whatever order the calls settle in
C4_AppendInDetectionOrder ==
  \A i, j \in DOMAIN appended : i < j => appended[i] < appended[j]

\* C6: once a stop trigger has set pendingStopRef, stopRecordingAndInsert is
\* eventually invoked, provided every call in flight eventually settles
C6_StopLeadsToFinalize ==
  \A n \in 0..MaxToggles :
    (pendingStopRef /\ Len(finalizeLog) = n) ~> (Len(finalizeLog) > n)

\* a deferred stop has been answered by its finalize
C6_Witness ==
  /\ FinalizedBy("deferred") # {}
  /\ stopReq.calls # {}
  /\ ~pendingStopRef

FairSpec == Spec /\ WF_vars(Settles)

\* stopRecordingAndInsert call f resolves in this step, and no startRecording
\* call was made or was pending since f was invoked
FinalizeCompletes(f) ==
  /\ f \in finalizing
  /\ f \notin finalizing'
  /\ finalizeLog[f.id].starts = starts
  /\ finalizeLog[f.id].pendingStarts = 0

\* C7: when finalize completes, on either path, recordingState is 'idle'
C7_IdleAfterFinalize ==
  [][\A f \in finalizing : FinalizeCompletes(f) => recordingState' = "idle"]_vars

\* C8: when stopRecordingAndInsert is invoked no call is in flight, and its text
\* holds the text of every call of the stopped session that was dispatched
\* before or at the stop trigger and returned text
C8_NoDispatchedCallDropped ==
  \A i \in DOMAIN finalizeLog :
    /\ finalizeLog[i].inflight = 0
    /\ \A k \in Range(appended) :
         (k <= finalizeLog[i].upTo /\ dispatched[k] = finalizeLog[i].sess)
            => Letters[k] \in Range(finalizeLog[i].text)

\* C9: a trigger that arrives while the previous session's stop is deferred or
\* its finalize is awaited does not call startRecording
C9_NoStartWhileProcessing ==
  [][(toggles' = toggles + 1 /\ (pendingStopRef \/ finalizing # {}))
        => starts' = starts]_vars

\* C10: whenever startRecording opens a capture session and recordingState
\* becomes 'recording', the transcript is empty and processingCountRef is 0
C10_RecordingStartsClean ==
  [][session' # session
        => transcript' = <<>> /\ processingCountRef' = 0]_vars

(* ------------------ properties of the detector (VadSpec) --------------- *)
\* the last call on the detector was analyzeAudioLevel / forceComplete
FrameCall == lastOut.op = "frame"
ForceCall == lastOut.op = "force"

\* how often chunk c occurs in the chunk list q
RECURSIVE Occurrences(_, _)
Occurrences(q, c) ==
  IF q = <<>> THEN 0
  ELSE (IF q[1] = c THEN 1 ELSE 0) + Occurrences(Tail(q), c)

\* C11 (as stated): a frame emits SpeechEnd exactly when it completes a silence
\* run of silenceDuration that follows a speech run of at least
\* minSpeechDuration; a completed silence run that emits nothing discards the
\* buffered chunks
C11_SpeechEndIffRule ==
  FrameCall =>
    /\ lastOut.emitted <=> RefSpeechEnd(lastOut.ref, lastOut.silent, now)
    /\ (RefTimeout(lastOut.ref, lastOut.silent, now) /\ ~lastOut.emitted)
          => vad.audioChunks = <<>>

\* 0.2 s of speech followed by 1.0 s of silence: the frame that ends the silence
\* emits nothing and the detector is Silent with an empty buffer
C11_ShortUtterance ==
  (/\ FrameCall /\ lastOut.silent
   /\ lastOut.ref.speaking /\ lastOut.ref.quiet
   /\ lastOut.ref.silenceStart - lastOut.ref.speechStart = 2 * FrameMs
   /\ now - lastOut.ref.silenceStart = 10 * FrameMs)
    => ~lastOut.emitted /\ ~vad.isSpeaking /\ vad.audioChunks = <<>>

\* C11 (amended): a frame emits SpeechEnd exactly when it completes a silence
\* run of silenceDuration that follows a speech run of at least
\* minSpeechDuration and at least one chunk is buffered; every completed
\* silence run returns the detector to Silent with an empty buffer, and a frame
\* that completes none leaves the buffered chunks alone unless it starts speech
C11_SpeechEndIffRuleAndChunks ==
  /\ FrameCall =>
       /\ lastOut.emitted <=>
             (RefSpeechEnd(lastOut.ref, lastOut.silent, now)
                /\ lastOut.before.audioChunks # <<>>)
       /\ RefTimeout(lastOut.ref, lastOut.silent, now)
             => ~vad.isSpeaking /\ vad.audioChunks = <<>>
       /\ (~RefTimeout(lastOut.ref, lastOut.silent, now) /\ ~lastOut.started)
             => vad.audioChunks = lastOut.before.audioChunks
  /\ C11_ShortUtterance

\* 1.5 s of speech followed by 1.0 s of silence: the frame at 2.5 s emits the
\* one SpeechEnd
C11_Witness ==
  /\ FrameCall /\ lastOut.emitted
  /\ lastOut.ref.speechStart = T0
  /\ lastOut.ref.silenceStart = T0 + 15 * FrameMs
  /\ now = T0 + 25 * FrameMs

\* the speech duration of the run the last call ended: up to the start of the
\* silence run in progress, or up to now when none is in progress
RunSpeechDuration ==
  (IF lastOut.ref.quiet THEN lastOut.ref.silenceStart ELSE now)
    - lastOut.ref.speechStart

\* C12: no segment is emitted, by the silence timeout or by forceComplete,
\* whose speech duration is below minSpeechDuration
C12_NoSubMinimumSegment ==
  lastOut.emitted => RunSpeechDuration >= minSpeechDuration

\* C13 (as stated): forceComplete on a Speaking detector emits exactly when
\* now - speechStartTime >= minSpeechDuration, and leaves the detector Silent
\* with an empty buffer either way
C13_ForceEmitsIffLongEnough ==
  (ForceCall /\ lastOut.before.isSpeaking) =>
    /\ lastOut.emitted <=> (now - lastOut.before.speechStartTime >= minSpeechDuration)
    /\ ~vad.isSpeaking /\ vad.audioChunks = <<>>

\* C13 (amended): forceComplete on a Speaking detector emits the buffered
\* chunks exactly when at least one chunk is buffered and
\* now - speechStartTime >= minSpeechDuration; otherwise it emits nothing; either
\* way the detector is Silent with an empty buffer afterwards
C13_ForceEmitsIffLongEnoughAndChunks ==
  (ForceCall /\ lastOut.before.isSpeaking) =>
    /\ lastOut.emitted <=>
          (/\ lastOut.before.audioChunks # <<>>
           /\ now - lastOut.before.speechStartTime >= minSpeechDuration)
    /\ lastOut.emitted => lastOut.blob = segmentBlob(lastOut.before)
    /\ ~lastOut.emitted => lastOut.blob = <<>>
    /\ ~vad.isSpeaking /\ vad.audioChunks = <<>>
    /\ vad.speechStartTime = 0 /\ vad.silenceStartTime = 0

\* forceComplete flushed a Speaking detector exactly minSpeechDuration after
\* speech started
C13_Witness ==
  /\ ForceCall /\ lastOut.before.isSpeaking /\ lastOut.emitted
  /\ now - lastOut.before.speechStartTime = minSpeechDuration

\* C14: every emitted blob starts with the header chunk (the first chunk the
\* detector received), holds it once, and continues with the buffered chunks in
\* arrival order: the buffer itself when it starts with the header, the header
\* followed by the buffer when it does not
C14_HeaderThenChunksInOrder ==
  lastOut.emitted =>
    LET raw == lastOut.before.audioChunks
        blob == lastOut.blob
    IN  /\ blob[1] = 1
        /\ Occurrences(blob, 1) = 1
        /\ blob = IF raw[1] = 1 THEN raw ELSE <<1>> \o raw
        /\ \A i, j \in DOMAIN blob : i < j => blob[i] < blob[j]

\* the second segment's buffer [c3, c4] was emitted as [header, c3, c4]
C14_Witness ==
  /\ lastOut.emitted
  /\ lastOut.before.audioChunks = <<4, 5>>
  /\ lastOut.blob = <<1, 4, 5>>

\* C15: the header chunk is the first chunk the detector received and no call
\* (later chunk, frame, emission, discard, forceComplete, stop) changes it
C15_HeaderSetOnce ==
  /\ vad.headerChunk = IF fed = 0 THEN 0 ELSE 1
  /\ lastOut.before.headerChunk # 0 => vad.headerChunk = lastOut.before.headerChunk

\* forceComplete emitted a segment after three chunks and the header is still
\* the first chunk
C15_Witness ==
  /\ ForceCall /\ lastOut.emitted
  /\ fed >= 3
  /\ vad.headerChunk = 1

\* C16: a call emits only when the buffer holds a chunk, and the emitted blob
\* is not empty; a silence timeout or forceComplete with an empty buffer emits
\* nothing and leaves the detector Silent
C16_NeverEmittedEmpty ==
  /\ lastOut.emitted => lastOut.before.audioChunks # <<>> /\ lastOut.blob # <<>>
  /\ ~lastOut.emitted => lastOut.blob = <<>>
  /\ ((ForceCall \/ (FrameCall /\ RefTimeout(lastOut.ref, lastOut.silent, now)))
        /\ lastOut.before.audioChunks = <<>>)
       => ~lastOut.emitted /\ ~vad.isSpeaking

\* a silence timeout after long enough speech fired with nothing buffered
C16_Witness ==
  /\ FrameCall
  /\ RefSpeechEnd(lastOut.ref, lastOut.silent, now)
  /\ lastOut.before.audioChunks = <<>>
  /\ ~lastOut.emitted /\ ~vad.isSpeaking

\* C17: forceComplete on a Silent detector emits nothing and leaves the speaking
\* flag, the timers, the header chunk and the buffered chunks as they were
C17_ForceWhileSilentIsNoOp ==
  (ForceCall /\ ~lastOut.before.isSpeaking) =>
    /\ ~lastOut.emitted /\ ~lastOut.started
    /\ vad = lastOut.before

(* ------------- properties of the recording bar (Spec), continued -------- *)
\* C18: once stopRecording has stopped a session's detector, no chunk is
\* buffered in it and it emits no event (its record never changes again, late
\* dataavailable events included); a step dispatches at most one segment, from a
\* detector that was running, so the stop itself dispatches at most the forced
\* flush
C18_StoppedSessionStaysStopped ==
  [][/\ \A i \in 1..Len(vads) : ~vads[i].running => vads'[i] = vads[i]
     /\ Len(dispatched') # Len(dispatched) =>
          /\ Len(dispatched') = Len(dispatched) + 1
          /\ vads[dispatched'[Len(dispatched')]].running]_vars

\* a session was stopped with a forced flush, and its recorder's late
\* dataavailable event has been handled
C18_Witness ==
  \E i \in 1..Len(vads) :
    /\ ~vads[i].running
    /\ recorders[i] = "inactive"
    /\ stopReq.sess = i
    /\ stopReq.upTo > 0 /\ dispatched[stopReq.upTo] = i
    /\ vads[i].audioChunks = <<>>

\* C19: a call that settles with an error result or an exception leaves the
\* transcript, the detectors, the recorders and isRecording as they were and
\* does not put the store into the error state
C19_FailedCallIsLocal ==
  [][failures' # failures =>
       /\ transcript' = transcript
       /\ appended' = appended
       /\ vads' = vads /\ recorders' = recorders /\ vadRef' = vadRef
       /\ isRecording' = isRecording
       /\ recordingState' # "error"]_vars

\* in a session started once, the first segment's call failed and the second
\* segment's text is the transcript
C19_Witness ==
  /\ failures = 1
  /\ starts = 1
  /\ Len(dispatched) = 2 /\ dispatched[1] = dispatched[2]
  /\ appended = <<2>>
  /\ transcript = SegmentText(2)

\* C20: when getUserMedia fails, the start is aborted: recordingState becomes
\* 'error', not 'recording', and the transcript is not reset
C20_FailedStartAborts ==
  [][(pendingStarts' < pendingStarts /\ session' = session) =>
       /\ recordingState' = "error"
       /\ transcript' = transcript]_vars

(* ------------- properties of the hand-off to the main process ---------- *)
\* the stopRecordingAndInsert invocation that handler run h answers
InvocationOf(h) == finalizeLog[handoffs[h].id]

\* C21: when the transcript buffer, trimmed, is empty at finalize (it is empty
\* or holds white space only), the handler calls neither cleanupText nor
\* insertText
C21_EmptyTranscriptCallsNothing ==
  \A h \in DOMAIN handoffs :
    trim(InvocationOf(h).buffer) = <<>> => handoffs[h].io = <<>>

\* a session was stopped with only a newline in the buffer and the handler has
\* run for it
C21_Witness ==
  \E h \in DOMAIN handoffs :
    /\ InvocationOf(h).buffer = <<NL>>
    /\ handoffs[h].io = <<>>

\* C22: when the finalize text is not empty the handler calls cleanupText and,
\* after it has returned, insertText, in every case: with the trimmed rewrite
\* when cleanup returned one, and with the text it was handed when cleanup is
\* disabled, threw, or replied with nothing but white space
C22_CleanupThenInsert ==
  \A h \in DOMAIN handoffs :
    InvocationOf(h).text # <<>> =>
      LET io == handoffs[h].io
      IN  /\ Len(io) = 2
          /\ io[1].fn = "cleanupText"
          /\ io[1].arg = InvocationOf(h).text
          /\ io[2].fn = "insertText"
          /\ io[2].arg = IF io[1].res = "rewrite"
                           THEN trim(ReplyContent("rewrite"))
                           ELSE InvocationOf(h).text

\* the cleanup request threw and the raw text was inserted all the same
C22_Witness ==
  \E h \in DOMAIN handoffs :
    /\ Len(handoffs[h].io) = 2
    /\ handoffs[h].io[1].res = "throw"
    /\ handoffs[h].io[2].arg = InvocationOf(h).text
    /\ InvocationOf(h).text # <<>>

\* the handler has run in this step
HandoffReturns == Len(handoffs') = Len(handoffs) + 1

\* C23: when the hand-off reports failure the transcript is left as it is, and
\* a hand-off that clears a transcript has reported success
C23_FailedInsertKeepsTranscript ==
  [][HandoffReturns =>
       LET h == handoffs'[Len(handoffs')]
       IN  /\ ~h.success => transcript' = transcript
           /\ (transcript # <<>> /\ transcript' = <<>>) => h.success]_vars

\* insertText failed for the last hand-off and the text it was given is still
\* in the buffer
C23_Witness ==
  /\ handoffs # <<>>
  /\ ~handoffs[Len(handoffs)].success
  /\ transcript # <<>>
  /\ trim(transcript) = InvocationOf(Len(handoffs)).text

(* ------------------ properties of the capture source ------------------- *)
\* the captures that are open: detector running or recorder still recording
OpenCaptures == {i \in 1..Len(vads) : vads[i].running \/ recorders[i] = "recording"}

\* C24: startRecording while a capture is open does not open a second one (at
\* most one stream, recorder and detector is open at a time), and once
\* stopRecording has released the refs and no start is pending nothing is open
C24_StartIsIdempotent ==
  /\ Cardinality(OpenCaptures) <= 1
  /\ (vadRef = 0 /\ pendingStarts = 0) => OpenCaptures = {}

(* ------------- properties of the hotkey detector (HotkeySpec) ---------- *)
\* the first two qualifying presses reached a detector that was started once
\* and whose press record was still 0, at times t1 < t2, under one mode
FreshPair ==
  /\ Len(pressLog) >= 2
  /\ pressLog[1].handlers = 1 /\ pressLog[2].handlers = 1
  /\ pressLog[1].mode = pressLog[2].mode
  /\ pressLog[1].before = 0
  /\ pressLog[1].t < pressLog[2].t

\* C25: on a fresh detector the first press fires nothing; the second fires
\* exactly one trigger, while it is handled, if it comes less than
\* doubleTapThreshold after the first, and otherwise fires nothing and leaves
\* lastPress at its time (with 1000 as the time of the first press: 1000 and
\* 1250 give one trigger at 1250; 1000 and 1400 give none and lastPress = 1400)
C25_DoublePressRule ==
  FreshPair =>
    /\ pressLog[1].fired = 0
    /\ IF pressLog[2].t - pressLog[1].t < doubleTapThreshold
         THEN pressLog[2].fired = 1
         ELSE /\ pressLog[2].fired = 0
              /\ pressLog[2].after = pressLog[2].t

\* the first example of the claim: presses 250 ms apart, one trigger, at the
\* time of the second
C25_Example250 ==
  /\ FreshPair /\ Len(pressLog) = 2
  /\ pressLog[2].t - pressLog[1].t = 250
  /\ triggers = <<pressLog[2].t>>

\* the second example: presses 400 ms apart, no trigger, lastPress at the second
C25_Example400 ==
  /\ FreshPair /\ Len(pressLog) = 2
  /\ pressLog[2].t - pressLog[1].t = 400
  /\ triggers = <<>>
  /\ hotkeyManager.lastControlPress = pressLog[2].t

\* C26: a qualifying press fires at most one trigger, lastPress is 0 after a
\* press that fired, and the qualifying press that follows one that fired does
\* not fire (no press belongs to two triggers)
C26_NoTripleTap ==
  \A i \in DOMAIN pressLog :
    /\ pressLog[i].fired <= 1
    /\ pressLog[i].fired > 0 => pressLog[i].after = 0
    /\ (i > 1 /\ pressLog[i - 1].fired > 0 /\ pressLog[i - 1].mode = pressLog[i].mode)
          => pressLog[i].fired = 0

\* C27: whatever start, stop and reloadSettings calls came before, a qualifying
\* key event is evaluated by exactly one listener, and it fires only as the
\* second press of a double press (so a single isolated press fires nothing)
C27_EvaluatedOnce ==
  \A i \in DOMAIN pressLog :
    /\ pressLog[i].handlers = 1
    /\ pressLog[i].fired > 0 =>
         /\ pressLog[i].fired = 1
         /\ i > 1
         /\ pressLog[i].t - pressLog[i - 1].t < doubleTapThreshold

\* C28: every error event the manager emits because a listener or shortcut
\* could not be installed is heard by a handler main.ts has subscribed
C28_InstallFailureReported ==
  \A i \in DOMAIN errorEvents : errorEvents[i].heard

(* ------------- properties of the transcript buffer (TextSpec) ----------- *)
\* the fragments of the example, in order
ExampleIn == <<Hello_, WorldNL, <<NL>>, NextWord>>

\* the buffers the example states after each of them
ExampleStated ==
  << Hello,
     Hello \o <<SP, "w", "o", "r", "l", "d">>,
     Hello \o <<SP, "w", "o", "r", "l", "d", NL>>,
     Hello \o <<SP, "w", "o", "r", "l", "d", NL>> \o NextWord >>

\* the same with the space that ends the first fragment kept
ExampleKeepingSpace ==
  << Hello_,
     Hello_ \o <<SP, "w", "o", "r", "l", "d">>,
     Hello_ \o <<SP, "w", "o", "r", "l", "d", NL>>,
     Hello_ \o <<SP, "w", "o", "r", "l", "d", NL>> \o NextWord >>

\* C29: from the empty buffer, appending "hello " gives "hello", then
\* "world\n" gives "hello world", then the newline marker gives
\* "hello world\n", then "next" gives "hello world\nnext"
C29_ExampleAsStated ==
  \A n \in 1..4 : bufIn = SubSeq(ExampleIn, 1, n) => buf = ExampleStated[n]

\* C29, amended: from the empty buffer, appending "hello " gives "hello " (the
\* space that ends the fragment is kept), then "world\n" gives "hello  world"
\* with two spaces, then the newline marker gives "hello  world\n", then "next"
\* gives "hello  world\nnext"
C29_ExampleKeepingSpace ==
  \A n \in 1..4 : bufIn = SubSeq(ExampleIn, 1, n) => buf = ExampleKeepingSpace[n]

\* the four fragments of the example have been appended
C29_Witness ==
  /\ bufIn = ExampleIn
  /\ buf = ExampleKeepingSpace[4]

(* --------------- properties of the store's recordingState -------------- *)
\* a stop trigger has been accepted and its finalize has not completed
StopInProgress == pendingStopRef \/ finalizing # {}

\* C30: recordingState is 'processing' exactly while a stop is in progress:
\* dispatching or settling a segment during capture leaves it at 'recording',
\* and a call that settles during a deferred stop does not set it back to
\* 'recording'
C30_ProcessingIffStopping ==
  recordingState = "processing" <=> StopInProgress

LastIn == bufIn[Len(bufIn)]

\* p is s without the newlines s ends with
WithoutTrailingNewlines(p, s) ==
  \E k \in 0..Len(s) :
    /\ p = SubSeq(s, 1, k)
    /\ k > 0 => s[k] # NL
    /\ \A j \in (k + 1)..Len(s) : s[j] = NL

\* p is s without the white space s ends with
WithoutTrailingWhitespace(p, s) ==
  \E k \in 0..Len(s) :
    /\ p = SubSeq(s, 1, k)
    /\ k > 0 => ~IsWhitespace(s[k])
    /\ \A j \in (k + 1)..Len(s) : IsWhitespace(s[j])

\* C32: appending a fragment F other than the newline marker to a buffer B
\* gives B, then one space exactly if B is not empty and does not end with a
\* newline, then F without its trailing newlines; appending the newline marker
\* gives B without its trailing white space, then one newline
C32_AppendRule ==
  bufIn # <<>> =>
    IF LastIn = <<NL>>
      THEN \E p \in {SubSeq(bufBefore, 1, k) : k \in 0..Len(bufBefore)} :
             /\ WithoutTrailingWhitespace(p, bufBefore)
             /\ buf = p \o <<NL>>
      ELSE \E f \in {SubSeq(LastIn, 1, k) : k \in 0..Len(LastIn)} :
             /\ WithoutTrailingNewlines(f, LastIn)
             /\ buf = bufBefore
                        \o (IF bufBefore # <<>> /\ bufBefore[Len(bufBefore)] # NL
                              THEN <<SP>> ELSE <<>>)
                        \o f

\* a fragment with two trailing newlines was appended to a buffer that ends
\* with a newline: no space, no newline added
C32_Witness ==
  /\ bufIn # <<>> /\ LastIn = <<"a", NL, NL>>
  /\ bufBefore = Hello \o <<NL>>
  /\ buf = Hello \o <<NL, "a">>

\* C39: the newline marker applied directly after the newline marker leaves the
\* buffer as it was, and applied to the empty buffer it gives one newline
C39_MarkerIdempotent ==
  /\ (Len(bufIn) >= 2 /\ LastIn = <<NL>> /\ bufIn[Len(bufIn) - 1] = <<NL>>)
        => buf = bufBefore
  /\ bufIn = <<(<<NL>>)>> => buf = <<NL>>

\* Enter was pressed twice after a fragment and the buffer ends with one newline
C39_Witness ==
  /\ bufIn = <<Hello, <<NL>>, <<NL>>>>
  /\ buf = Hello \o <<NL>>

\* the chunks the detector received after the last change to Speaking, in
\* arrival order, behind the header chunk when the first of them is not it
ChunksSinceSpeechStart ==
  LET body == [i \in 1..(fed - startFed) |-> startFed + i]
  IN  IF startFed = 0 THEN body ELSE <<1>> \o body

\* C33: an emitted segment holds the header chunk and then exactly the chunks
\* received between its SpeechStart and its emission, in arrival order; a chunk
\* received while Silent before that SpeechStart is in it only as the header
C33_BodyIsChunksSinceSpeechStart ==
  lastOut.emitted => lastOut.blob = ChunksSinceSpeechStart

\* chunks 1 and 2 arrived while Silent, speech started, chunks 3 and 4 arrived:
\* the segment is [header, c3, c4] and c2 is in no segment
C33_Witness ==
  /\ lastOut.emitted
  /\ startFed = 2
  /\ lastOut.blob = <<1, 3, 4>>
  /\ sentChunks = {1, 3, 4}

\* C34: no chunk other than the header is emitted twice: a segment emitted by
\* a call holds none of the chunks emitted before it, every call that ends a
\* speech run (emission, discard, forced completion) leaves the buffer empty
\* and the header as it was, and a speech run starts on an empty buffer
C34_NoChunkInTwoSegments ==
  [][/\ lastOut'.emitted /\ lastOut'.op \in {"frame", "force"} /\ sentChunks' # sentChunks
         => (Range(lastOut'.blob) \ {vad.headerChunk}) \cap sentChunks = {}
     /\ (vad.isSpeaking /\ ~vad'.isSpeaking)
         => vad'.audioChunks = <<>> /\ vad'.headerChunk = vad.headerChunk
     /\ (~vad.isSpeaking /\ vad'.isSpeaking) => vad'.audioChunks = <<>>]_vars

\* a second segment [header, c4, c5] after a first one [header, c2]
C34_Witness ==
  /\ lastOut.emitted
  /\ lastOut.blob = <<1, 4, 5>>
  /\ sentChunks = {1, 2, 4, 5}

\* the hand-offs in which the main process called the cleanup collaborator
CleanupHandoffs ==
  {i \in DOMAIN handoffs : \E k \in DOMAIN handoffs[i].io : handoffs[i].io[k].fn = "cleanupText"}

\* C35: cleanupText is called at most once for a session, only from a finalize
\* hand-off and on the whole trimmed transcript of that hand-off; a step that
\* settles a transcription call makes no hand-off
C35_CleanupOncePerSession ==
  [][/\ \A i, j \in CleanupHandoffs' :
          finalizeLog'[handoffs'[i].id].sess = finalizeLog'[handoffs'[j].id].sess => i = j
     /\ \A i \in CleanupHandoffs' :
          /\ handoffs'[i].id \in DOMAIN finalizeLog'
          /\ handoffs'[i].io[1].arg = trim(finalizeLog'[handoffs'[i].id].buffer)
     /\ calls' # calls => handoffs' = handoffs]_vars

\* C36: stopRecordingAndInsert is never invoked while a capture session is
\* recording, and the stop request it serves was made for the session that is
\* current when it is invoked: no deferred stop outlives its session
C36_NoFinalizeWhileRecording ==
  [][finalizeLog' # finalizeLog
        => /\ ~isRecording'
           /\ finalizeLog'[Len(finalizeLog')].sess = session']_vars

\* C37: a call's fragment is appended only while the session that dispatched
\* the call is the current one, and the text handed to finalize for a session
\* holds fragments of that session's calls only
C37_NoFragmentInLaterSession ==
  [][/\ \A c \in calls :
          (c \notin calls' /\ appended' # appended) => c.sess = session'
     /\ \A i \in DOMAIN finalizeLog' : \A k \in DOMAIN dispatched' :
          Letters[k] \in Range(finalizeLog'[i].text)
             => dispatched'[k] = finalizeLog'[i].sess]_vars

(* ------------- properties of the shortcut registration (ManagerSpec) --- *)
\* C38: whatever start, stop and reloadSettings calls were made, at most one
\* accelerator is registered, none when the manager is not listening, a start
\* call on a listening manager changes nothing, and a press of the registered
\* accelerator emits exactly one trigger
C38_OneShortcutOneTrigger ==
  [][/\ globalShortcut' <= 1
     /\ ~hotkeyManager'.isListening => globalShortcut' = 0
     /\ (hotkeyManager.isListening /\ CallStarts)
          => UNCHANGED <<hotkeyManager, uIOhook, globalShortcut, errorEvents, triggers>>
     /\ ShortcutPressed => Len(triggers') = Len(triggers) + 1]_vars

\* custom mode: the manager was started, the accelerator was pressed once (one
\* trigger) and the third call stopped the manager
C38_Witness ==
  /\ hotkeyMode = "custom"
  /\ hkCalls = 3
  /\ ~hotkeyManager.isListening
  /\ globalShortcut = 0
  /\ Len(triggers) = 1
  /\ errorEvents = <<>>

=============================================================================
